---------------------------- MODULE Spec2Model ----------------------------
(***************************************************************************)
(* A model of src/src/client.rs: the Mercado Bitcoin REST client.          *)
(*                                                                         *)
(* Strings are sequences of one-character strings, so that formatting and  *)
(* form encoding are computed character by character.  An Option<T> is a   *)
(* sequence of length at most one: << >> is None and <<v>> is Some(v).     *)
(* The keyed hash is a symbolic term over its key and its message.         *)
(***************************************************************************)
EXTENDS Integers, Sequences, FiniteSets, TLC

(***************************************************************************)
(* Bounds of the model.                                                    *)
(***************************************************************************)
\* How many operations are invoked on the client in one behaviour.
MaxCalls == 2
\* The wall clock runs from 1 to MaxClock.
MaxClock == 2
\* A finite float of the model is m / 2^FracBits.
FracBits == 9
\* The small floats 1/2^FracBits .. MaxMantissa/2^FracBits are all inputs.
MaxMantissa == 4

(***************************************************************************)
(* String literals of the source.                                          *)
(***************************************************************************)
API_VERSION_PATH == <<"/", "t", "a", "p", "i", "/", "v", "3", "/">>

S_tapi_method == <<"t", "a", "p", "i", "_", "m", "e", "t", "h", "o", "d">>
S_tapi_nonce == <<"t", "a", "p", "i", "_", "n", "o", "n", "c", "e">>
S_coin_pair == <<"c", "o", "i", "n", "_", "p", "a", "i", "r">>
S_full == <<"f", "u", "l", "l">>
S_quantity == <<"q", "u", "a", "n", "t", "i", "t", "y">>
S_limit_price == <<"l", "i", "m", "i", "t", "_", "p", "r", "i", "c", "e">>
S_list_orderbook ==
    <<"l", "i", "s", "t", "_", "o", "r", "d", "e", "r", "b", "o", "o", "k">>
S_place_buy_order ==
    <<"p", "l", "a", "c", "e", "_", "b", "u", "y", "_", "o", "r", "d", "e", "r">>
S_place_sell_order ==
    <<"p", "l", "a", "c", "e", "_", "s", "e", "l", "l", "_", "o", "r", "d", "e", "r">>
S_get_account_info ==
    <<"g", "e", "t", "_", "a", "c", "c", "o", "u", "n", "t", "_", "i", "n", "f", "o">>

(***************************************************************************)
(* Integer and boolean rendering (ToString for i64 and bool).              *)
(***************************************************************************)
DigitChar(d) ==
    CASE d = 0 -> "0" [] d = 1 -> "1" [] d = 2 -> "2" [] d = 3 -> "3"
      [] d = 4 -> "4" [] d = 5 -> "5" [] d = 6 -> "6" [] d = 7 -> "7"
      [] d = 8 -> "8" [] d = 9 -> "9"

RECURSIVE NatDigits(_)
\* The decimal digits of a natural number, most significant first.
NatDigits(n) ==
    IF n < 10 THEN <<n>> ELSE Append(NatDigits(n \div 10), n % 10)

DigitsToStr(ds) == [i \in 1..Len(ds) |-> DigitChar(ds[i])]

IntToString(n) ==
    IF n < 0 THEN <<"-">> \o DigitsToStr(NatDigits(-n))
    ELSE DigitsToStr(NatDigits(n))

BoolToString(b) ==
    IF b THEN <<"t", "r", "u", "e">> ELSE <<"f", "a", "l", "s", "e">>

(***************************************************************************)
(* f64 values and their fixed-precision rendering, format!("{:.N}", x).    *)
(* A float is [class, neg, m]: class "finite" is the value m / 2^FracBits, *)
(* negated when neg; "nan" and "inf" are the non-finite values.  The       *)
(* rendering is the correctly rounded decimal expansion of the exact       *)
(* binary value (ties to even), as core::fmt produces it.                  *)
(***************************************************************************)
RECURSIVE Pow(_, _)
Pow(b, e) == IF e = 0 THEN 1 ELSE b * Pow(b, e - 1)

Scale == Pow(2, FracBits)

Finite(neg, m) == [class |-> "finite", neg |-> neg, m |-> m]
NaN == [class |-> "nan", neg |-> FALSE, m |-> 0]
Infinity == [class |-> "inf", neg |-> FALSE, m |-> 0]
NegInfinity == [class |-> "inf", neg |-> TRUE, m |-> 0]

\* The float nearest to the decimal literal whole.frac4 (frac4 in 1/10000).
FloatLit(whole, frac4) ==
    Finite(FALSE, whole * Scale + (frac4 * Scale + 5000) \div 10000)

RECURSIVE FracDigits(_, _)
\* The first n decimal digits of r / Scale, for 0 <= r < Scale.
FracDigits(r, n) ==
    IF n = 0 THEN << >>
    ELSE <<(r * 10) \div Scale>> \o FracDigits((r * 10) % Scale, n - 1)

RECURSIVE FracRem(_, _)
\* What is left of r / Scale after its first n decimal digits, times Scale.
FracRem(r, n) == IF n = 0 THEN r ELSE FracRem((r * 10) % Scale, n - 1)

RECURSIVE IncDigits(_)
\* A digit sequence plus one in its last place, carrying to the left.
IncDigits(ds) ==
    IF ds = << >> THEN <<1>>
    ELSE IF ds[Len(ds)] < 9
         THEN [ds EXCEPT ![Len(ds)] = ds[Len(ds)] + 1]
         ELSE Append(IncDigits(SubSeq(ds, 1, Len(ds) - 1)), 0)

FormatFixed(f, prec) ==
    IF f.class = "nan" THEN <<"N", "a", "N">>
    ELSE IF f.class = "inf"
    THEN (IF f.neg THEN <<"-">> ELSE << >>) \o <<"i", "n", "f">>
    ELSE LET ip == f.m \div Scale
             r0 == f.m % Scale
             all == NatDigits(ip) \o FracDigits(r0, prec)
             rem == FracRem(r0, prec)
             up == \/ 2 * rem > Scale
                   \/ 2 * rem = Scale /\ all[Len(all)] % 2 = 1
             rounded == IF up THEN IncDigits(all) ELSE all
             nint == Len(rounded) - prec
         IN  (IF f.neg THEN <<"-">> ELSE << >>)
               \o DigitsToStr(SubSeq(rounded, 1, nint))
               \o (IF prec = 0 THEN << >>
                   ELSE <<".">> \o DigitsToStr(SubSeq(rounded, nint + 1, Len(rounded))))

(***************************************************************************)
(* serde_urlencoded::to_string over a Vec<(String, String)>: the pairs in  *)
(* the order of the vector, key=value joined by &, each key and value      *)
(* byte-serialised as application/x-www-form-urlencoded.                   *)
(***************************************************************************)
Unreserved ==
    {"a", "b", "c", "d", "e", "f", "g", "h", "i", "j", "k", "l", "m", "n", "o",
     "p", "q", "r", "s", "t", "u", "v", "w", "x", "y", "z",
     "A", "B", "C", "D", "E", "F", "G", "H", "I", "J", "K", "L", "M", "N", "O",
     "P", "Q", "R", "S", "T", "U", "V", "W", "X", "Y", "Z",
     "0", "1", "2", "3", "4", "5", "6", "7", "8", "9", "*", "-", ".", "_"}

EncodeChar(c) ==
    IF c \in Unreserved THEN <<c>>
    ELSE CASE c = " " -> <<"+">>
           [] c = "&" -> <<"%", "2", "6">>
           [] c = "=" -> <<"%", "3", "D">>
           [] c = "+" -> <<"%", "2", "B">>
           [] c = "/" -> <<"%", "2", "F">>
           [] c = "%" -> <<"%", "2", "5">>

RECURSIVE EncodeStr(_)
EncodeStr(s) ==
    IF s = << >> THEN << >> ELSE EncodeChar(Head(s)) \o EncodeStr(Tail(s))

RECURSIVE UrlEncode(_)
UrlEncode(params) ==
    IF params = << >> THEN << >>
    ELSE LET pair == EncodeStr(params[1][1]) \o <<"=">> \o EncodeStr(params[1][2])
         IN  IF Len(params) = 1 THEN pair
             ELSE pair \o <<"&">> \o UrlEncode(Tail(params))

(***************************************************************************)
(* The client and its constructors.                                        *)
(***************************************************************************)
None == << >>
Some(v) == <<v>>

init(public, private, id, key) ==
    [public_url |-> Some(public), private_url |-> Some(private),
     identifier |-> Some(id), secret |-> Some(key)]

init_public(url) ==
    [public_url |-> Some(url), private_url |-> None,
     identifier |-> None, secret |-> None]

init_private(url, id, key) ==
    [public_url |-> None, private_url |-> Some(url),
     identifier |-> Some(id), secret |-> Some(key)]

\* Faulty variant: unwrap_or_default in place of unwrap.
public_url_or_default(cl) ==
    IF cl.public_url = None THEN Some("") ELSE cl.public_url

\* The accessors clone the field; the caller's unwrap aborts on None.
public_url(cl) == cl.public_url
private_url(cl) == cl.private_url
identifier(cl) == cl.identifier
secret(cl) == cl.secret

(***************************************************************************)
(* Status codes and the response envelope.                                 *)
(***************************************************************************)
Success == 100

\* The discriminants of enum ApiStatus.
ApiStatus ==
    {100, 199, 200, 201, 202, 203, 204, 206, 429, 430, 431, 500, 211, 205,
     207, 215, 216, 232, 240, 243, 222, 223, 234, 242, 245, 224, 227, 432}

\* Faulty variant: an unlisted number is coerced to InternalError.
DecodeStatus_coercing(n) == IF n \in ApiStatus THEN Some(n) ELSE Some(500)

\* Deserialize_repr: a listed discriminant decodes, anything else is an error.
DecodeStatus(n) == IF n \in ApiStatus THEN Some(n) ELSE None

\* The payload type each private operation decodes response_data into.
PayloadType(op) ==
    CASE op = "orderbook" -> "OrderbookResponse"
      [] op \in {"place_buy_order", "place_sell_order"} -> "OrderResponse"
      [] op = "get_account_info" -> "AccountInfoResponse"
      [] op = "ticker" -> "TickerResponse"
      [] op = "day_summary" -> "DaySummary"

\* A JSON body of a private endpoint: status is << >> when the field is
\* missing, data is "null", "absent", or the name of the shape it holds.
\* Decoding gives Some(Response) or None for a decode error.
DecodeResponse(op, body) ==
    IF ~body.json \/ body.status = None THEN None
    ELSE LET st == DecodeStatus(body.status[1])
         IN  IF st = None THEN None
             ELSE IF body.data \in {"null", "absent"}
                  THEN Some([response_data |-> None, status_code |-> st[1]])
                  ELSE IF body.data = PayloadType(op)
                       THEN Some([response_data |-> Some(body.data),
                                  status_code |-> st[1]])
                       ELSE None

is_success(response) == response.status_code = Success

(***************************************************************************)
(* Signing and the parameter lists of the private operations.              *)
(***************************************************************************)
\* hex(HMAC-SHA512(key, msg)) as a term over the key and the message.
HmacSha512Hex(key, msg) == <<"hmac_sha512_hex", key, msg>>

RECURSIVE Reverse(_)
Reverse(seq) == IF seq = << >> THEN << >> ELSE Append(Reverse(Tail(seq)), Head(seq))

\* Faulty variant: the signed string does not keep the insertion order.
sign_reordered(key, params) ==
    HmacSha512Hex(key, API_VERSION_PATH \o <<"?">> \o UrlEncode(Reverse(params)))

\* Client::sign, given the unwrapped secret.
sign(key, params) ==
    HmacSha512Hex(key, API_VERSION_PATH \o <<"?">> \o UrlEncode(params))

place_order_name(order_type) ==
    IF order_type = "Buy" THEN S_place_buy_order ELSE S_place_sell_order

\* Faulty variant: coin_pair ahead of the nonce.
orderbook_params_permuted(ts, coin_pair, full) ==
    << <<S_tapi_method, S_list_orderbook>>,
       <<S_coin_pair, coin_pair>>,
       <<S_tapi_nonce, IntToString(ts)>>,
       <<S_full, BoolToString(full)>> >>

orderbook_params(ts, coin_pair, full) ==
    << <<S_tapi_method, S_list_orderbook>>,
       <<S_tapi_nonce, IntToString(ts)>>,
       <<S_coin_pair, coin_pair>>,
       <<S_full, BoolToString(full)>> >>

\* Faulty variant: both numbers rendered with two fractional digits.
place_order_params_two_digits(order_type, ts, coin_pair, quantity, limit_price) ==
    << <<S_tapi_method, place_order_name(order_type)>>,
       <<S_tapi_nonce, IntToString(ts)>>,
       <<S_coin_pair, coin_pair>>,
       <<S_quantity, FormatFixed(quantity, 2)>>,
       <<S_limit_price, FormatFixed(limit_price, 2)>> >>

place_order_params(order_type, ts, coin_pair, quantity, limit_price) ==
    << <<S_tapi_method, place_order_name(order_type)>>,
       <<S_tapi_nonce, IntToString(ts)>>,
       <<S_coin_pair, coin_pair>>,
       <<S_quantity, FormatFixed(quantity, 8)>>,
       <<S_limit_price, FormatFixed(limit_price, 2)>> >>

get_account_info_params(ts) ==
    << <<S_tapi_method, S_get_account_info>>,
       <<S_tapi_nonce, IntToString(ts)>> >>

(***************************************************************************)
(* State.                                                                  *)
(*   client  the Client value, immutable after construction                *)
(*   clock   the wall clock when it was last read (timestamp_nanos)        *)
(*   calls   the operations invoked so far, each a future with its locals  *)
(*   wire    the HTTP requests that reached the network, in order          *)
(* A call's pc is "send" while it awaits send(), "recv" while it awaits    *)
(* the response body, "returned" once it gave a Result to its caller and   *)
(* "panicked" once an unwrap aborted it.  Its body is the response body    *)
(* the transport delivered to it, its response the decoded envelope.       *)
(***************************************************************************)
VARIABLES client, clock, calls, wire

vars == <<client, clock, calls, wire>>

PrivateOps == {"orderbook", "place_buy_order", "place_sell_order", "get_account_info"}
PublicOps == {"ticker", "day_summary"}

Pending == [kind |-> "Pending", payload |-> None, code |-> None, site |-> ""]
Ok(payload) == [kind |-> "Ok", payload |-> Some(payload), code |-> None, site |-> ""]
ErrApiError(code) ==
    [kind |-> "ApiError", payload |-> None, code |-> Some(code), site |-> ""]
ErrRequestError ==
    [kind |-> "RequestError", payload |-> None, code |-> None, site |-> ""]
Panic(site) == [kind |-> "Panic", payload |-> None, code |-> None, site |-> site]

NoFloat == Finite(FALSE, 0)

\* The locals of a call when it is invoked.
NewCall(op, ts, params, quantity, limit_price) ==
    [op |-> op, pc |-> "send", ts |-> ts, params |-> params,
     quantity |-> quantity, limit_price |-> limit_price,
     request |-> None, body |-> None, response |-> None, result |-> Pending]

Abort(call, site) == [call EXCEPT !.pc = "panicked", !.result = Panic(site)]

Return(call, result) == [call EXCEPT !.pc = "returned", !.result = result]

\* Faulty variant: missing fields default to the empty string, so the
\* request is built and sent whatever the client holds.
private_start_defaulting(cl, op, ts, params, quantity, limit_price) ==
    LET call == NewCall(op, Some(ts), params, quantity, limit_price)
        or_default(o) == IF o = None THEN Some("") ELSE o
    IN  [call EXCEPT !.request =
            Some([method |-> "POST",
                  url |-> <<or_default(private_url(cl))[1]>>,
                  body |-> UrlEncode(params),
                  tapi_id |-> or_default(identifier(cl)),
                  tapi_mac |-> Some(sign(or_default(secret(cl))[1], params))])]

\* A private operation up to its first await: sign the parameters, then
\* build the POST from the private URL, the form body and the two headers.
private_start(cl, op, ts, params, quantity, limit_price) ==
    LET call == NewCall(op, Some(ts), params, quantity, limit_price)
    IN  IF secret(cl) = None THEN Abort(call, "secret")
        ELSE IF private_url(cl) = None THEN Abort(call, "private_url")
        ELSE IF identifier(cl) = None THEN Abort(call, "identifier")
        ELSE [call EXCEPT !.request =
                 Some([method |-> "POST",
                       url |-> <<private_url(cl)[1]>>,
                       body |-> UrlEncode(params),
                       tapi_id |-> identifier(cl),
                       tapi_mac |-> Some(sign(secret(cl)[1], params))])]

\* A public operation up to its first await: format the URI, then GET it.
public_start(cl, op, segments) ==
    LET call == NewCall(op, None, << >>, NoFloat, NoFloat)
    IN  IF public_url(cl) = None THEN Abort(call, "public_url")
        ELSE [call EXCEPT !.request =
                 Some([method |-> "GET",
                       url |-> <<public_url(cl)[1]>> \o segments,
                       body |-> << >>,
                       tapi_id |-> None,
                       tapi_mac |-> None])]

\* Faulty variant: anything but a success is tried again.
private_finish_retrying(call, body) ==
    LET decoded == DecodeResponse(call.op, body)
    IN  IF decoded # None /\ is_success(decoded[1])
             /\ decoded[1].response_data # None
        THEN Return([call EXCEPT !.response = decoded],
                    Ok(decoded[1].response_data[1]))
        ELSE private_start(client, call.op, call.ts[1], call.params,
                           call.quantity, call.limit_price)

\* A private operation after its response body arrived.
private_finish(call, body) ==
    LET decoded == DecodeResponse(call.op, body)
    IN  IF decoded = None THEN Return(call, ErrRequestError)
        ELSE LET response == decoded[1]
                 seen == [call EXCEPT !.response = decoded]
             IN  IF is_success(response)
                 THEN IF response.response_data = None
                      THEN Abort(seen, "response_data")
                      ELSE Return(seen, Ok(response.response_data[1]))
                 ELSE Return(seen, ErrApiError(response.status_code))

\* A public operation after its response body arrived.
public_finish(call, body) ==
    IF body.json /\ body.data = PayloadType(call.op)
    THEN Return(call, Ok(body.data))
    ELSE Return(call, ErrRequestError)

finish(call, body) ==
    IF call.op \in PrivateOps THEN private_finish(call, body)
    ELSE public_finish(call, body)

(***************************************************************************)
(* Inputs.  The narrow sets are the inputs of the specification with       *)
(* several calls in flight; the wide ones those of the specification of    *)
(* one call; the floats are widest in the specification of one order.      *)
(***************************************************************************)
PublicUrl == "https://www.mercadobitcoin.net/api"
PrivateUrl == "https://www.mercadobitcoin.net/tapi/v3/"

Clients(ids, keys) ==
    {init(PublicUrl, PrivateUrl, id, key) : id \in ids, key \in keys}
      \cup {init_public(PublicUrl)}
      \cup {init_private(PrivateUrl, id, key) : id \in ids, key \in keys}

NarrowClients == {init(PublicUrl, PrivateUrl, "id-1", "key-1")}
WideClients == Clients({"id-1"}, {"key-1", "key-2"})

BRLBTC == <<"B", "R", "L", "B", "T", "C">>
BRL_BTC == <<"B", "R", "L", "/", "B", "T", "C">>

NarrowCoinPairs == {BRLBTC}
WideCoinPairs == {BRLBTC, BRL_BTC}

NarrowFull == {TRUE}
WideFull == BOOLEAN

Currencies == {"BTC"}
Dates == {<<2021, 3, 4>>}

\* quantity = 1.5 and limit_price = 200.1234
OneAndAHalf == FloatLit(1, 5000)
TwoHundred == FloatLit(200, 1234)

NarrowQuantities == {OneAndAHalf}
NarrowPrices == {TwoHundred}

WideQuantities == {OneAndAHalf, NaN}
WidePrices == {TwoHundred, Infinity}

FiniteFloats ==
    {OneAndAHalf, TwoHundred, Finite(FALSE, 0)}
      \cup {Finite(neg, m) : neg \in BOOLEAN, m \in 1..MaxMantissa}
      \cup {Finite(FALSE, k * Scale - 1) : k \in {1, 10}}

AllFloats == FiniteFloats \cup {NaN, Infinity, NegInfinity}

\* Status numbers a body may carry: success, listed failures, unlisted numbers.
WideStatuses == {100, 203, 432, 500, 0, 101, 210, 999, -1}

MalformedBody == [json |-> FALSE, status |-> None, data |-> "absent"]

\* The bodies a server may answer a call with.
Bodies(op, statuses, datas) ==
    {MalformedBody}
      \cup [json : {TRUE},
            status : {None} \cup {Some(n) : n \in statuses},
            data : datas \cup {PayloadType(op)}]

NarrowBodies(op) ==
    {[json |-> TRUE, status |-> Some(100), data |-> PayloadType(op)],
     [json |-> TRUE, status |-> Some(203), data |-> "null"]}
WideBodies(op) == Bodies(op, WideStatuses, {"null", "absent", "Garbage"})

(***************************************************************************)
(* Actions.                                                                *)
(***************************************************************************)
Init(clients) ==
    /\ client \in clients
    /\ clock = 1
    /\ calls = << >>
    /\ wire = << >>

\* Utc::now(): time has passed since the clock was last read, or has not.
Now == clock..MaxClock

\* An operation is invoked at time now and runs up to its first await.
Invoke(limit, now, call) ==
    /\ Len(calls) < limit
    /\ clock' = now
    /\ calls' = Append(calls, call)
    /\ UNCHANGED <<client, wire>>

orderbook(limit, pairs, fulls) ==
    \E ts \in Now, coin_pair \in pairs, full \in fulls :
        Invoke(limit, ts,
               private_start(client, "orderbook", ts,
                             orderbook_params(ts, coin_pair, full),
                             NoFloat, NoFloat))

\* Client::place_order up to its first await, having read the clock as ts.
place_order(cl, ts, order_type, quantity, limit_price, coin_pair) ==
    private_start(cl,
                  IF order_type = "Buy" THEN "place_buy_order"
                  ELSE "place_sell_order",
                  ts,
                  place_order_params(order_type, ts, coin_pair,
                                     quantity, limit_price),
                  quantity, limit_price)

place_buy_order(limit, quantities, prices, pairs) ==
    \E ts \in Now, quantity \in quantities, limit_price \in prices,
       coin_pair \in pairs :
        Invoke(limit, ts,
               place_order(client, ts, "Buy", quantity, limit_price, coin_pair))

place_sell_order(limit, quantities, prices, pairs) ==
    \E ts \in Now, quantity \in quantities, limit_price \in prices,
       coin_pair \in pairs :
        Invoke(limit, ts,
               place_order(client, ts, "Sell", quantity, limit_price, coin_pair))

get_account_info(limit) ==
    \E ts \in Now :
        Invoke(limit, ts,
               private_start(client, "get_account_info", ts,
                             get_account_info_params(ts), NoFloat, NoFloat))

ticker(limit) ==
    \E ts \in {clock}, currency \in Currencies :
        Invoke(limit, ts,
               public_start(client, "ticker", <<currency, "ticker">>))

day_summary(limit) ==
    \E ts \in {clock}, currency \in Currencies, date \in Dates :
        Invoke(limit, ts,
               public_start(client, "day_summary",
                            <<currency, "day-summary", IntToString(date[1]),
                              IntToString(date[2]), IntToString(date[3])>>))

\* The transport, which owns the request since send(), puts the request of
\* call i on the network.
Transmit(i) ==
    /\ calls[i].pc = "send"
    /\ wire' = Append(wire, [call |-> i, request |-> calls[i].request[1]])
    /\ calls' = [calls EXCEPT ![i].pc = "recv", ![i].request = None]
    /\ UNCHANGED <<client, clock>>

\* send() or the read of the body fails: connection, TLS, timeout.
TransportFailure(i) ==
    /\ calls[i].pc \in {"send", "recv"}
    /\ calls' = [calls EXCEPT ![i] = Return(calls[i], ErrRequestError)]
    /\ UNCHANGED <<client, clock, wire>>

\* The response body of call i arrives and is decoded.
Receive(i, body) ==
    /\ calls[i].pc = "recv"
    /\ calls' = [calls EXCEPT ![i] = finish([calls[i] EXCEPT !.body = Some(body)], body)]
    /\ UNCHANGED <<client, clock, wire>>

\* Several calls, possibly in flight together, on one client that holds
\* every field.
Next ==
    \/ orderbook(MaxCalls, NarrowCoinPairs, NarrowFull)
    \/ place_buy_order(MaxCalls, NarrowQuantities, NarrowPrices, NarrowCoinPairs)
    \/ place_sell_order(MaxCalls, NarrowQuantities, NarrowPrices, NarrowCoinPairs)
    \/ get_account_info(MaxCalls)
    \/ ticker(MaxCalls)
    \/ day_summary(MaxCalls)
    \/ \E i \in 1..Len(calls) : Transmit(i)
    \/ \E i \in 1..Len(calls) : TransportFailure(i)
    \/ \E i \in 1..Len(calls) : \E body \in NarrowBodies(calls[i].op) : Receive(i, body)

Spec == Init(NarrowClients) /\ [][Next]_vars

\* One call, over the wide inputs.
NextCall ==
    \/ orderbook(1, WideCoinPairs, WideFull)
    \/ place_buy_order(1, WideQuantities, WidePrices, WideCoinPairs)
    \/ place_sell_order(1, WideQuantities, WidePrices, WideCoinPairs)
    \/ get_account_info(1)
    \/ ticker(1)
    \/ day_summary(1)
    \/ \E i \in 1..Len(calls) : Transmit(i)
    \/ \E i \in 1..Len(calls) : TransportFailure(i)
    \/ \E i \in 1..Len(calls) : \E body \in WideBodies(calls[i].op) : Receive(i, body)

SpecCall == Init(WideClients) /\ [][NextCall]_vars

\* One order, over all the floats.
NextOrder ==
    \/ place_buy_order(1, AllFloats, AllFloats, NarrowCoinPairs)
    \/ place_sell_order(1, AllFloats, AllFloats, NarrowCoinPairs)
    \/ \E i \in 1..Len(calls) : Transmit(i)
    \/ \E i \in 1..Len(calls) : TransportFailure(i)
    \/ \E i \in 1..Len(calls) : \E body \in NarrowBodies(calls[i].op) : Receive(i, body)

SpecOrder == Init(NarrowClients) /\ [][NextOrder]_vars

(***************************************************************************)
(* Properties.                                                             *)
(***************************************************************************)
Calls == 1..Len(calls)

Private(i) == calls[i].op \in PrivateOps

\* The places on the wire of the requests of call i.
RequestsOf(i) == {k \in 1..Len(wire) : wire[k].call = i}

\* Call i received a body that decodes into an envelope.
Decoded(i) ==
    /\ Private(i)
    /\ calls[i].body # None
    /\ DecodeResponse(calls[i].op, calls[i].body[1]) # None

AllFields(cl) ==
    /\ cl.public_url # None
    /\ cl.private_url # None
    /\ cl.identifier # None
    /\ cl.secret # None

PublicOnly(cl) ==
    /\ cl.public_url # None
    /\ cl.private_url = None
    /\ cl.identifier = None
    /\ cl.secret = None

PrivateOnly(cl) ==
    /\ cl.public_url = None
    /\ cl.private_url # None
    /\ cl.identifier # None
    /\ cl.secret # None

MissingFieldSites == {"public_url", "private_url", "identifier", "secret"}

\* C1: for every private operation and every body that decodes into an
\* envelope, a Success status makes the operation return Ok with the
\* envelope's payload, and any other listed status c makes it return
\* Err(ApiError(c)) with no payload, whether or not response_data is present.
C1_StatusDecidesResult ==
    \A i \in Calls :
        Decoded(i) =>
            LET body == calls[i].body[1]
            IN  IF body.status[1] = Success
                THEN /\ calls[i].pc = "returned"
                     /\ calls[i].result.kind = "Ok"
                     /\ calls[i].result.payload = <<body.data>>
                ELSE /\ calls[i].pc = "returned"
                     /\ calls[i].result = ErrApiError(body.status[1])

\* C2: in every envelope a private operation accepts as decoded, the payload
\* is present exactly when the status is Success, so that returning the
\* payload of a success never aborts.
C2_PayloadIffSuccess ==
    \A i \in Calls :
        /\ calls[i].response # None =>
               (calls[i].response[1].response_data # None
                  <=> calls[i].response[1].status_code = Success)
        /\ ~(calls[i].pc = "panicked" /\ calls[i].result.site = "response_data")

\* C3: a body whose status_code is a number outside the listed codes fails
\* to decode, and the private operation returns RequestError, not ApiError
\* and not Ok; ApiError is returned only with a listed code other than
\* Success, the one the body carries.
C3_UnlistedStatusIsRequestError ==
    \A i \in Calls :
        /\ ( /\ Private(i)
             /\ calls[i].body # None
             /\ calls[i].body[1].json
             /\ calls[i].body[1].status # None
             /\ calls[i].body[1].status[1] \notin ApiStatus )
           => /\ calls[i].pc = "returned"
              /\ calls[i].result = ErrRequestError
        /\ calls[i].result.kind = "ApiError"
           => /\ calls[i].result.code[1] \in ApiStatus \ {Success}
              /\ calls[i].body # None
              /\ calls[i].body[1].status = calls[i].result.code

C3_Witness ==
    \E i \in Calls :
        /\ Private(i)
        /\ calls[i].body # None
        /\ calls[i].body[1].json
        /\ calls[i].body[1].status = Some(999)
        /\ calls[i].body[1].data = PayloadType(calls[i].op)
        /\ calls[i].result = ErrRequestError

\* The parameter names of each private operation, in order, and its method.
ExpectedKeys(op) ==
    CASE op = "orderbook" -> <<S_tapi_method, S_tapi_nonce, S_coin_pair, S_full>>
      [] op \in {"place_buy_order", "place_sell_order"} ->
           <<S_tapi_method, S_tapi_nonce, S_coin_pair, S_quantity, S_limit_price>>
      [] op = "get_account_info" -> <<S_tapi_method, S_tapi_nonce>>

ExpectedMethod(op) ==
    CASE op = "orderbook" -> S_list_orderbook
      [] op = "place_buy_order" -> S_place_buy_order
      [] op = "place_sell_order" -> S_place_sell_order
      [] op = "get_account_info" -> S_get_account_info

\* C4: the parameter list of every private request is tapi_method, then
\* tapi_nonce, then the fields of the method in their fixed order, with the
\* method name of the operation and the nonce the call read; the form body
\* on the wire is that list.
C4_ParamOrder ==
    /\ \A i \in Calls :
           Private(i) =>
               /\ [k \in 1..Len(calls[i].params) |-> calls[i].params[k][1]]
                     = ExpectedKeys(calls[i].op)
               /\ calls[i].params[1][2] = ExpectedMethod(calls[i].op)
               /\ calls[i].params[2][2] = IntToString(calls[i].ts[1])
    /\ \A k \in 1..Len(wire) :
           Private(wire[k].call) =>
               wire[k].request.body = UrlEncode(calls[wire[k].call].params)

C4_Witness ==
    /\ \E k \in 1..Len(wire) : calls[wire[k].call].op = "orderbook"
    /\ \E i \in Calls : calls[i].op = "orderbook" /\ calls[i].ts = Some(MaxClock)

\* C5: on every private POST that reaches the wire, TAPI-MAC is the keyed
\* hash, under the client's secret, of "/tapi/v3/" + "?" + the form body that
\* is sent, and that body is the insertion-ordered encoding of the call's
\* parameter list; TAPI-ID is the client's identifier.
C5_SignedIsSent ==
    \A k \in 1..Len(wire) :
        Private(wire[k].call) =>
            LET request == wire[k].request
            IN  /\ request.method = "POST"
                /\ request.body = UrlEncode(calls[wire[k].call].params)
                /\ request.tapi_mac =
                       Some(HmacSha512Hex(client.secret[1],
                                          API_VERSION_PATH \o <<"?">> \o request.body))
                /\ request.tapi_id = client.identifier
                /\ client.identifier # None

C5_Witness ==
    \E k \in 1..Len(wire) :
        /\ calls[wire[k].call].op = "place_sell_order"
        /\ client.secret = Some("key-2")

\* The nonce of the k-th request on the wire.
NonceOnWire(k) == calls[wire[k].call].ts[1]

\* C6: across the private calls of one client, concurrent ones included,
\* a call that reads its nonce after another never has a smaller one, and
\* no request reaches the wire with a nonce smaller than one already sent.
C6_NonceMonotonic ==
    /\ \A i, j \in Calls :
           (Private(i) /\ Private(j) /\ i < j) => calls[i].ts[1] <= calls[j].ts[1]
    /\ \A j, k \in 1..Len(wire) :
           (Private(wire[j].call) /\ Private(wire[k].call) /\ j < k)
               => NonceOnWire(j) <= NonceOnWire(k)

\* C7: on a client built by init no operation aborts on a missing field; on
\* one built by init_public every private operation aborts; on one built by
\* init_private every public operation aborts.
C7_ConstructorsDecide ==
    \A i \in Calls :
        /\ AllFields(client) =>
               ~(calls[i].pc = "panicked" /\ calls[i].result.site \in MissingFieldSites)
        /\ (PublicOnly(client) /\ Private(i)) =>
               (calls[i].pc = "panicked" /\ calls[i].result.kind = "Panic")
        /\ (PrivateOnly(client) /\ ~Private(i)) =>
               (calls[i].pc = "panicked" /\ calls[i].result.kind = "Panic")
        /\ (PublicOnly(client) /\ ~Private(i)) => calls[i].pc # "panicked"
        /\ (PrivateOnly(client) /\ Private(i)) =>
               ~(calls[i].pc = "panicked" /\ calls[i].result.site \in MissingFieldSites)

C7_Witness ==
    /\ PrivateOnly(client)
    /\ \E i \in Calls : calls[i].op = "ticker" /\ calls[i].pc = "panicked"

\* C8: a call sends at most one request and never another one after a
\* failure; a call that returned or aborted does nothing more; a step of one
\* call changes no other call, and no step changes the client.
C8_OneRequestNoRetry ==
    [][ /\ client' = client
        /\ Len(wire') <= Len(wire) + 1
        /\ \A i \in 1..Len(calls') :
               Cardinality({k \in 1..Len(wire') : wire'[k].call = i}) <= 1
        /\ \A i \in Calls :
               /\ calls[i].pc \in {"returned", "panicked"} => calls'[i] = calls[i]
               /\ calls[i].pc \in {"returned", "panicked"} =>
                      {k \in 1..Len(wire') : wire'[k].call = i} = RequestsOf(i)
               /\ calls'[i] # calls[i] =>
                      \A j \in Calls \ {i} : calls'[j] = calls[j] ]_vars

C8_Witness ==
    /\ Len(calls) = 2
    /\ Len(wire) = 2
    /\ calls[1].result.kind = "ApiError"
    /\ calls[2].result.kind = "RequestError"
    /\ calls[1].op = "orderbook"
    /\ calls[2].op = "ticker"

Digits == {"0", "1", "2", "3", "4", "5", "6", "7", "8", "9"}

\* s is an optional minus sign, one or more digits, a point and exactly
\* prec digits.
IsFixedPoint(s, prec) ==
    LET t == IF s # << >> /\ s[1] = "-" THEN Tail(s) ELSE s
        n == Len(t)
    IN  /\ n >= prec + 2
        /\ t[n - prec] = "."
        /\ \A k \in 1..n : k # n - prec => t[k] \in Digits

IsOrder(i) == calls[i].op \in {"place_buy_order", "place_sell_order"}

\* The rendered numbers of call i are what is signed and what is sent.
RenderedIsSignedAndSent(i) ==
    /\ calls[i].params[4][1] = S_quantity
    /\ calls[i].params[5][1] = S_limit_price
    /\ calls[i].pc = "send" =>
           /\ calls[i].request[1].body = UrlEncode(calls[i].params)
           /\ calls[i].request[1].tapi_mac =
                  Some(HmacSha512Hex(client.secret[1],
                                     API_VERSION_PATH \o <<"?">>
                                       \o UrlEncode(calls[i].params)))
    /\ \A k \in RequestsOf(i) :
           /\ wire[k].request.body = UrlEncode(calls[i].params)
           /\ wire[k].request.tapi_mac =
                  Some(HmacSha512Hex(client.secret[1],
                                     API_VERSION_PATH \o <<"?">>
                                       \o UrlEncode(calls[i].params)))

\* C9 as stated: for every quantity and limit_price, the quantity parameter
\* has exactly 8 fractional digits and the limit_price parameter exactly 2,
\* and these strings are what is signed and sent.
C9_FixedPointAlways ==
    \A i \in Calls :
        IsOrder(i) =>
            /\ IsFixedPoint(calls[i].params[4][2], 8)
            /\ IsFixedPoint(calls[i].params[5][2], 2)
            /\ RenderedIsSignedAndSent(i)

\* C9 amended: for every finite quantity and every finite limit_price, the
\* quantity parameter has exactly 8 fractional digits and the limit_price
\* parameter exactly 2 (1.5 gives "1.50000000", 200.1234 gives "200.12"),
\* and these strings are what is signed and sent; a NaN or an infinity is
\* rendered without fractional digits.
C9_FixedPointWhenFinite ==
    \A i \in Calls :
        IsOrder(i) =>
            /\ calls[i].quantity.class = "finite"
                   <=> IsFixedPoint(calls[i].params[4][2], 8)
            /\ calls[i].limit_price.class = "finite"
                   <=> IsFixedPoint(calls[i].params[5][2], 2)
            /\ calls[i].quantity = OneAndAHalf =>
                   calls[i].params[4][2]
                       = <<"1", ".", "5", "0", "0", "0", "0", "0", "0", "0">>
            /\ calls[i].limit_price = TwoHundred =>
                   calls[i].params[5][2] = <<"2", "0", "0", ".", "1", "2">>
            /\ RenderedIsSignedAndSent(i)

C9_Witness ==
    \E i \in Calls :
        /\ calls[i].op = "place_buy_order"
        /\ calls[i].quantity = OneAndAHalf
        /\ calls[i].limit_price = TwoHundred
        /\ RequestsOf(i) # { }

\* C10: an operation invoked on a client that lacks a field it needs aborts
\* before any request is built or sent: a private operation in sign, on the
\* missing secret, a public one on the missing URL.
C10_AbortBeforeRequest ==
    \A i \in Calls :
        /\ (Private(i) /\ client.secret = None) =>
               /\ calls[i].pc = "panicked"
               /\ calls[i].result.site = "secret"
        /\ (~Private(i) /\ client.public_url = None) =>
               /\ calls[i].pc = "panicked"
               /\ calls[i].result.site = "public_url"
        /\ (calls[i].pc = "panicked" /\ calls[i].result.site \in MissingFieldSites) =>
               /\ calls[i].request = None
               /\ RequestsOf(i) = { }
        /\ (Private(i) /\ RequestsOf(i) # { }) =>
               (client.secret # None /\ client.private_url # None
                  /\ client.identifier # None)
        /\ (~Private(i) /\ RequestsOf(i) # { }) => client.public_url # None

C10_Witness ==
    /\ PublicOnly(client)
    /\ \E i \in Calls :
           /\ calls[i].op = "get_account_info"
           /\ calls[i].pc = "panicked"
           /\ calls[i].result.site = "secret"
           /\ RequestsOf(i) = { }

=============================================================================
